---- MODULE Spec2Model ----
(***************************************************************************)
(* Civic Bridge: the resolution engine of civic_lookup.py (CivicLookup)    *)
(* and the two query handlers of api_server.py (/api/lookup and            *)
(* /api/autocomplete).                                                     *)
(*                                                                         *)
(* Text is modelled as a sequence of one-character strings, so that        *)
(* str.strip(), str.upper(), startswith and "in" are computed, not assumed.*)
(* A missing cell of a CSV file (pandas NaN) is the value NaN.  Python's   *)
(* None is the empty sequence <<>> and a present value x is <<x>>.         *)
(***************************************************************************)
EXTENDS Integers, Sequences, FiniteSets, TLC

VARIABLES
  disk,           \* the CSV files found under data/ and its parent directory
  lookup_system,  \* api_server.lookup_system: None, or the CivicLookup instance
  response,       \* what the last call returned (with the arguments it was given)
  history,        \* the first suggestion answered since the start, when it is kept
  conc            \* the request threads, where each stands in init_lookup, and
                  \* the CivicLookup instances they have created

vars == <<disk, lookup_system, response, history, conc>>

----------------------------------------------------------------------------
(* Python values *)

None == <<>>
Some(x) == <<x>>
IsNone(o) == o = <<>>
Value(o) == o[1]

NaN == <<"NaN">>

\* str(x): a missing cell prints as "nan"
PyStr(x) == IF x = NaN THEN <<"n", "a", "n">> ELSE x

LowerLetters ==
  <<"a","b","c","d","e","f","g","h","i","j","k","l","m",
    "n","o","p","q","r","s","t","u","v","w","x","y","z">>
UpperLetters ==
  <<"A","B","C","D","E","F","G","H","I","J","K","L","M",
    "N","O","P","Q","R","S","T","U","V","W","X","Y","Z">>

LowerSet == {LowerLetters[i] : i \in 1..Len(LowerLetters)}

UpperOf ==
  [c \in LowerSet |->
     UpperLetters[CHOOSE i \in 1..Len(LowerLetters) : LowerLetters[i] = c]]

UpperChar(c) == IF c \in LowerSet THEN UpperOf[c] ELSE c

\* str.upper()
Upper(s) == IF s = <<>> THEN <<>> ELSE [i \in 1..Len(s) |-> UpperChar(s[i])]

IsSpace(c) == c = " "

RECURSIVE LStrip(_)
LStrip(s) == IF s # <<>> /\ IsSpace(Head(s)) THEN LStrip(Tail(s)) ELSE s

RECURSIVE RStrip(_)
RStrip(s) ==
  IF s # <<>> /\ IsSpace(s[Len(s)]) THEN RStrip(SubSeq(s, 1, Len(s) - 1)) ELSE s

\* a strip that leaves the trailing whitespace
Strip_LeftOnly(s) == LStrip(s)

\* str.strip()
Strip(s) == RStrip(LStrip(s))

\* str.startswith(p)
StartsWith(s, p) == Len(p) <= Len(s) /\ SubSeq(s, 1, Len(p)) = p

\* p in s
Contains(s, p) ==
  \E i \in 0..(Len(s) - Len(p)) : SubSeq(s, i + 1, i + Len(p)) = p

Digits == {"0","1","2","3","4","5","6","7","8","9"}

\* str.isdigit()
IsDigit(s) == s # <<>> /\ \A i \in 1..Len(s) : s[i] \in Digits

\* clean_for_json on a text cell: NaN becomes "", text is stripped
clean_for_json(obj) == IF obj = NaN THEN <<>> ELSE Strip(obj)

\* clean_for_json on an integer cell (numpy integer): int(obj)
clean_int(n) == n

\* Series.str.upper() == term, row by row: a missing cell compares False
SeriesUpperEq(cell, term) == cell # NaN /\ Upper(cell) = term

\* Series.str.upper().str.contains(term, na=False, regex=False)
SeriesUpperContains(cell, term) == cell # NaN /\ Contains(Upper(cell), term)

----------------------------------------------------------------------------
(* The constituency grouping of load_data *)

\* a grouping that lists Lazio under Meridionale as well
eu_constituencies_LazioTwice ==
  <<
    <<<<"N","o","r","d","-","o","c","c","i","d","e","n","t","a","l","e">>,
      <<<<"P","i","e","m","o","n","t","e">>,
        <<"V","a","l","l","e"," ","d","'","A","o","s","t","a">>,
        <<"L","i","g","u","r","i","a">>,
        <<"L","o","m","b","a","r","d","i","a">>>> >>,
    <<<<"N","o","r","d","-","o","r","i","e","n","t","a","l","e">>,
      <<<<"V","e","n","e","t","o">>,
        <<"T","r","e","n","t","i","n","o","-","A","l","t","o"," ","A","d","i","g","e">>,
        <<"F","r","i","u","l","i","-","V","e","n","e","z","i","a"," ","G","i","u","l","i","a">>,
        <<"E","m","i","l","i","a","-","R","o","m","a","g","n","a">>>> >>,
    <<<<"C","e","n","t","r","a","l","e">>,
      <<<<"T","o","s","c","a","n","a">>,
        <<"U","m","b","r","i","a">>,
        <<"M","a","r","c","h","e">>,
        <<"L","a","z","i","o">>>> >>,
    <<<<"M","e","r","i","d","i","o","n","a","l","e">>,
      <<<<"A","b","r","u","z","z","o">>,
        <<"M","o","l","i","s","e">>,
        <<"C","a","m","p","a","n","i","a">>,
        <<"P","u","g","l","i","a">>,
        <<"B","a","s","i","l","i","c","a","t","a">>,
        <<"C","a","l","a","b","r","i","a">>,
        <<"L","a","z","i","o">>>> >>,
    <<<<"I","n","s","u","l","a","r","e">>,
      <<<<"S","i","c","i","l","i","a">>,
        <<"S","a","r","d","e","g","n","a">>>> >>
  >>

\* self._eu_constituencies: the constituencies in the order of the dict, each
\* with its list of regions
eu_constituencies ==
  <<
    <<<<"N","o","r","d","-","o","c","c","i","d","e","n","t","a","l","e">>,
      <<<<"P","i","e","m","o","n","t","e">>,
        <<"V","a","l","l","e"," ","d","'","A","o","s","t","a">>,
        <<"L","i","g","u","r","i","a">>,
        <<"L","o","m","b","a","r","d","i","a">>>> >>,
    <<<<"N","o","r","d","-","o","r","i","e","n","t","a","l","e">>,
      <<<<"V","e","n","e","t","o">>,
        <<"T","r","e","n","t","i","n","o","-","A","l","t","o"," ","A","d","i","g","e">>,
        <<"F","r","i","u","l","i","-","V","e","n","e","z","i","a"," ","G","i","u","l","i","a">>,
        <<"E","m","i","l","i","a","-","R","o","m","a","g","n","a">>>> >>,
    <<<<"C","e","n","t","r","a","l","e">>,
      <<<<"T","o","s","c","a","n","a">>,
        <<"U","m","b","r","i","a">>,
        <<"M","a","r","c","h","e">>,
        <<"L","a","z","i","o">>>> >>,
    <<<<"M","e","r","i","d","i","o","n","a","l","e">>,
      <<<<"A","b","r","u","z","z","o">>,
        <<"M","o","l","i","s","e">>,
        <<"C","a","m","p","a","n","i","a">>,
        <<"P","u","g","l","i","a">>,
        <<"B","a","s","i","l","i","c","a","t","a">>,
        <<"C","a","l","a","b","r","i","a">>>> >>,
    <<<<"I","n","s","u","l","a","r","e">>,
      <<<<"S","i","c","i","l","i","a">>,
        <<"S","a","r","d","e","g","n","a">>>> >>
  >>

----------------------------------------------------------------------------
(* CivicLookup *)

\* CivicLookup.__init__: every cache is None
NewCivicLookup ==
  [comuni_cache |-> None, collegi_camera_cache |-> None,
   collegi_senato_cache |-> None, deputati_cache |-> None,
   senatori_cache |-> None, mep_cache |-> None, eu_constituencies |-> None]

\* pd.read_csv of a required file that is not there raises: load_data
\* does not return
LoadRaises(d) == d.absent # {}

\* a load that fills the senators in from a built-in table when their file
\* is absent
load_data_FallbackSenatori(self, d) ==
  [self EXCEPT
     !.comuni_cache = Some(d.comuni),
     !.collegi_camera_cache = Some(d.collegi_camera),
     !.collegi_senato_cache = Some(d.collegi_senato),
     !.deputati_cache = d.contatti_camera,
     !.senatori_cache =
        IF IsNone(d.contatti_senato)
        THEN Some(<<[nome |-> <<"n">>, cognome |-> <<"c">>,
                     gruppo_partito |-> <<"g">>,
                     regione |-> <<"L","a","z","i","o">>,
                     email_istituzionale |-> <<"e">>, sito_ufficiale |-> NaN]>>)
        ELSE d.contatti_senato,
     !.mep_cache = d.contatti_eu,
     !.eu_constituencies = Some(eu_constituencies)]

\* CivicLookup.load_data: the three required files are read in turn, each
\* optional file is read when it exists (d.x is None when the file is
\* absent); the value is the instance as load_data leaves it, which is the
\* instance as far as it was filled when a required file is not there
load_data(self, d) ==
  IF "comuni" \in d.absent THEN self
  ELSE IF "collegi_camera" \in d.absent
       THEN [self EXCEPT !.comuni_cache = Some(d.comuni)]
  ELSE IF "collegi_senato" \in d.absent
       THEN [self EXCEPT !.comuni_cache = Some(d.comuni),
                         !.collegi_camera_cache = Some(d.collegi_camera)]
  ELSE
  [self EXCEPT
     !.comuni_cache = Some(d.comuni),
     !.collegi_camera_cache = Some(d.collegi_camera),
     !.collegi_senato_cache = Some(d.collegi_senato),
     !.deputati_cache = d.contatti_camera,
     !.senatori_cache = d.contatti_senato,
     !.mep_cache = d.contatti_eu,
     !.eu_constituencies = Some(eu_constituencies)]

\* the dict get_comune_info builds from match.iloc[0]
ComuneInfo(row) ==
  [istat_comune |-> clean_int(row.istat_comune),
   comune |-> clean_for_json(row.comune),
   provincia |-> clean_for_json(row.provincia),
   regione |-> clean_for_json(row.regione)]

\* an exact phase that never finds anything
ExactMatch_Nothing(comuni, term) == <<>>

\* DataFrame[mask] keeps the rows the mask is true of, in table order
ExactMatch(comuni, term) ==
  SelectSeq(comuni, LAMBDA r : SeriesUpperEq(r.comune, term))

\* a fallback that looks at the start of the name only
ContainsMatch_PrefixOnly(comuni, term) ==
  SelectSeq(comuni, LAMBDA r : r.comune # NaN /\ StartsWith(Upper(r.comune), term))

ContainsMatch(comuni, term) ==
  SelectSeq(comuni, LAMBDA r : SeriesUpperContains(r.comune, term))

\* a resolver that takes the last matching row, not the first
get_comune_info_LastRow(self, search_term) ==
  IF IsNone(self.comuni_cache) THEN None
  ELSE
    LET comuni == Value(self.comuni_cache)
        term == Upper(Strip(PyStr(search_term)))
        exact_match == ExactMatch(comuni, term)
        match == IF exact_match # <<>> THEN exact_match
                 ELSE ContainsMatch(comuni, term)
    IN  IF match # <<>> THEN Some(ComuneInfo(match[Len(match)])) ELSE None

\* CivicLookup.get_comune_info
get_comune_info(self, search_term) ==
  IF IsNone(self.comuni_cache) THEN None
  ELSE
    LET comuni == Value(self.comuni_cache)
        term == Upper(Strip(PyStr(search_term)))
        exact_match == ExactMatch(comuni, term)
        match == IF exact_match # <<>> THEN exact_match
                 ELSE ContainsMatch(comuni, term)
    IN  IF match # <<>> THEN Some(ComuneInfo(match[1])) ELSE None

\* str.split('-')[0]: the text before the first '-'
RECURSIVE SplitFirst(_)
SplitFirst(s) ==
  IF s = <<>> \/ Head(s) = "-" THEN <<>> ELSE <<Head(s)>> \o SplitFirst(Tail(s))

\* the dict get_camera_representatives appends for a matching member
DeputatoDict(deputato) ==
  [tipo |-> "deputato",
   nome |-> clean_for_json(deputato.nome),
   cognome |-> clean_for_json(deputato.cognome),
   gruppo_partito |-> clean_for_json(deputato.gruppo_partito),
   collegio |-> clean_for_json(deputato.collegio),
   email |-> clean_for_json(deputato.email_istituzionale),
   form_url |-> clean_for_json(deputato.form_contatti_url),
   istituzione |-> "Camera dei Deputati"]

\* a test that forgets to upper-case the label
DeputatoMatches_NoUpper(deputato, region_part) ==
  StartsWith(PyStr(deputato.collegio), region_part)

\* the test of the loop over the members: the label starts with the region part
DeputatoMatches(deputato, region_part) ==
  StartsWith(Upper(PyStr(deputato.collegio)), region_part)

\* the loop of get_camera_representatives over _deputati_cache.iterrows()
RECURSIVE CameraLoop(_, _)
CameraLoop(rows, region_part) ==
  IF rows = <<>> THEN <<>>
  ELSE (IF DeputatoMatches(Head(rows), region_part)
        THEN <<DeputatoDict(Head(rows))>> ELSE <<>>)
       \o CameraLoop(Tail(rows), region_part)

\* region_part of get_camera_representatives
RegionPart(collegio_id) == SplitFirst(Upper(PyStr(collegio_id)))

\* CivicLookup.get_camera_representatives
get_camera_representatives(self, istat_comune) ==
  IF IsNone(self.collegi_camera_cache) \/ IsNone(self.deputati_cache) THEN <<>>
  ELSE
    LET collegio_match ==
          SelectSeq(Value(self.collegi_camera_cache),
                 LAMBDA r : r.istat_comune = istat_comune)
    IN  IF collegio_match = <<>> THEN <<>>
        ELSE CameraLoop(Value(self.deputati_cache),
                        RegionPart(collegio_match[1].collegio_camera_id))

\* the dict get_senato_representatives appends for a matching member
SenatoreDict(senatore) ==
  [tipo |-> "senatore",
   nome |-> clean_for_json(senatore.nome),
   cognome |-> clean_for_json(senatore.cognome),
   gruppo_partito |-> clean_for_json(senatore.gruppo_partito),
   regione |-> clean_for_json(senatore.regione),
   email |-> clean_for_json(senatore.email_istituzionale),
   sito_ufficiale |-> clean_for_json(senatore.sito_ufficiale),
   istituzione |-> "Senato della Repubblica"]

\* a comparison that accepts a region name the field merely starts with
SenatoreMatches_Prefix(senatore, regione) ==
  StartsWith(Upper(clean_for_json(senatore.regione)), Upper(regione))

\* senatore_regione.upper() == regione.upper()
SenatoreMatches(senatore, regione) ==
  Upper(clean_for_json(senatore.regione)) = Upper(regione)

\* the loop of get_senato_representatives over _senatori_cache.iterrows()
RECURSIVE SenatoLoop(_, _)
SenatoLoop(rows, regione) ==
  IF rows = <<>> THEN <<>>
  ELSE (IF SenatoreMatches(Head(rows), regione)
        THEN <<SenatoreDict(Head(rows))>> ELSE <<>>)
       \o SenatoLoop(Tail(rows), regione)

\* CivicLookup.get_senato_representatives
get_senato_representatives(self, regione) ==
  IF IsNone(self.senatori_cache) THEN <<>>
  ELSE SenatoLoop(Value(self.senatori_cache), regione)

\* a membership test that ignores letter case
InList_IgnoreCase(x, list) == \E i \in 1..Len(list) : Upper(list[i]) = Upper(x)

\* regione in regioni
InList(x, list) == \E i \in 1..Len(list) : list[i] = x

\* the first loop of get_eu_representatives: the first constituency whose
\* region list holds regione, None when the loop ends without a break
RECURSIVE FindCircoscrizione(_, _)
FindCircoscrizione(items, regione) ==
  IF items = <<>> THEN None
  ELSE IF InList(regione, Head(items)[2]) THEN Some(Head(items)[1])
       ELSE FindCircoscrizione(Tail(items), regione)

\* the dict get_eu_representatives appends for a matching member
MepDict(mep) ==
  [tipo |-> "deputato_europeo",
   nome |-> clean_for_json(mep.nome),
   cognome |-> clean_for_json(mep.cognome),
   gruppo_partito |-> clean_for_json(mep.gruppo_partito),
   circoscrizione_eu |-> clean_for_json(mep.circoscrizione_eu),
   email |-> clean_for_json(mep.email_istituzionale),
   form_url |-> clean_for_json(mep.form_contatti_url),
   istituzione |-> "Parlamento Europeo"]

\* a comparison that ignores letter case
MepMatches_IgnoreCase(mep, circoscrizione) ==
  Upper(clean_for_json(mep.circoscrizione_eu)) = Upper(circoscrizione)

\* clean_for_json(mep.get('circoscrizione_eu', '')) == circoscrizione
MepMatches(mep, circoscrizione) ==
  clean_for_json(mep.circoscrizione_eu) = circoscrizione

\* the second loop of get_eu_representatives over _mep_cache.iterrows()
RECURSIVE EuLoop(_, _)
EuLoop(rows, circoscrizione) ==
  IF rows = <<>> THEN <<>>
  ELSE (IF MepMatches(Head(rows), circoscrizione)
        THEN <<MepDict(Head(rows))>> ELSE <<>>)
       \o EuLoop(Tail(rows), circoscrizione)

\* CivicLookup.get_eu_representatives ("not circoscrizione" is true of None
\* and of the empty name)
get_eu_representatives(self, regione) ==
  IF IsNone(self.mep_cache) THEN <<>>
  ELSE
    LET circoscrizione == FindCircoscrizione(Value(self.eu_constituencies), regione)
    IN  IF IsNone(circoscrizione) \/ Value(circoscrizione) = <<>> THEN <<>>
        ELSE EuLoop(Value(self.mep_cache), Value(circoscrizione))

\* a total that forgets the third tier
Summary_TotalWithoutMep(deputati, senatori, mep) ==
  [total_representatives |-> Len(deputati) + Len(senatori),
   deputati_count |-> Len(deputati),
   senatori_count |-> Len(senatori),
   mep_count |-> Len(mep)]

\* the 'summary' dict of lookup_representatives
Summary(deputati, senatori, mep) ==
  [total_representatives |-> Len(deputati) + Len(senatori) + Len(mep),
   deputati_count |-> Len(deputati),
   senatori_count |-> Len(senatori),
   mep_count |-> Len(mep)]

\* f'Comune non trovato per: '
NotFoundPrefix ==
  <<"C","o","m","u","n","e"," ","n","o","n"," ","t","r","o","v","a","t","o",
    " ","p","e","r",":"," ">>

\* a failure that forgets what was asked for
NotFoundFailure_QueryDropped(search_term) ==
  [success |-> FALSE, error |-> NotFoundPrefix, representatives |-> <<>>]

\* the dict returned when get_comune_info found nothing
NotFoundFailure(search_term) ==
  [success |-> FALSE, error |-> NotFoundPrefix \o search_term,
   representatives |-> <<>>]

\* a lookup that reports no tier at all when the lower chamber has a gap
lookup_representatives_AllOrNothing(self, search_term) ==
  LET comune_info == get_comune_info(self, search_term)
  IN  IF IsNone(comune_info)
      THEN NotFoundFailure(search_term)
      ELSE
        LET deputati == get_camera_representatives(self, Value(comune_info).istat_comune)
            senatori == IF deputati = <<>> THEN <<>>
                        ELSE get_senato_representatives(self, Value(comune_info).regione)
            mep == IF deputati = <<>> THEN <<>>
                   ELSE get_eu_representatives(self, Value(comune_info).regione)
        IN  [success |-> TRUE,
             location |-> Value(comune_info),
             representatives |->
               [camera |-> deputati, senato |-> senatori, eu_parliament |-> mep],
             summary |-> Summary(deputati, senatori, mep)]

\* CivicLookup.lookup_representatives
lookup_representatives(self, search_term) ==
  LET comune_info == get_comune_info(self, search_term)
  IN  IF IsNone(comune_info)
      THEN NotFoundFailure(search_term)
      ELSE
        LET deputati == get_camera_representatives(self, Value(comune_info).istat_comune)
            senatori == get_senato_representatives(self, Value(comune_info).regione)
            mep == get_eu_representatives(self, Value(comune_info).regione)
        IN  [success |-> TRUE,
             location |-> Value(comune_info),
             representatives |->
               [camera |-> deputati, senato |-> senatori, eu_parliament |-> mep],
             summary |-> Summary(deputati, senatori, mep)]

----------------------------------------------------------------------------
(* api_server.py *)

\* an init_lookup that hands out a new, empty instance once one exists
init_lookup_NewEachTime(global, d) ==
  IF IsNone(global) THEN Some(load_data(NewCivicLookup, d)) ELSE Some(NewCivicLookup)

\* an init_lookup that drops a table of the instance it hands out again
init_lookup_ForgetsMembers(global, d) ==
  IF IsNone(global) THEN Some(load_data(NewCivicLookup, d))
  ELSE Some([Value(global) EXCEPT !.mep_cache = None])

\* init_lookup raises what load_data raises, when it is the call that loads
InitLookupRaises(global, d) == IsNone(global) /\ LoadRaises(d)

\* init_lookup: the value of the global after the call; the global is
\* assigned before load_data runs, so it keeps the instance when that raises
init_lookup(global, d) ==
  IF IsNone(global) THEN Some(load_data(NewCivicLookup, d)) ELSE global

\* a or b or c: the first argument that is present and not empty
FirstTruthy(args) ==
  IF ~IsNone(args.q) /\ Value(args.q) # <<>> THEN args.q
  ELSE IF ~IsNone(args.comune) /\ Value(args.comune) # <<>> THEN args.comune
  ELSE args.cap

\* the /api/lookup handler: the status and the JSON body it returns
api_lookup(global, d, args) ==
  LET query == FirstTruthy(args)
  IN  IF IsNone(query) \/ Value(query) = <<>>
      THEN [status |-> 400,
            body |-> [success |-> FALSE, error |-> "Missing query parameter"]]
      ELSE IF InitLookupRaises(global, d)
      THEN [status |-> 500,
            body |-> [success |-> FALSE, error |-> "Internal server error"]]
      ELSE [status |-> 200,
            body |-> lookup_representatives(Value(init_lookup(global, d)),
                                            Strip(Value(query)))]

DefaultLimit == 1000

\* the first loop of autocomplete_comuni: the rows with a name, name stripped
RECURSIVE ComuniData(_)
ComuniData(rows) ==
  IF rows = <<>> THEN <<>>
  ELSE
    LET row == Head(rows)
    IN  (IF row.comune = NaN \/ Strip(PyStr(row.comune)) = <<>> THEN <<>>
         ELSE <<[comune |-> Strip(PyStr(row.comune)),
                 provincia |-> clean_for_json(row.provincia),
                 regione |-> clean_for_json(row.regione)]>>)
        \o ComuniData(Tail(rows))

\* a scoring that keeps the names that do not match, ranked last
Score_KeepsNonMatching(comune_name, query_upper) ==
  IF query_upper = comune_name THEN 1
  ELSE IF StartsWith(comune_name, query_upper) THEN 2
  ELSE 3

\* the score of one name: 1 exact, 2 starts with, 3 contains, 0 no match
Score(comune_name, query_upper) ==
  IF query_upper = comune_name THEN 1
  ELSE IF StartsWith(comune_name, query_upper) THEN 2
  ELSE IF Contains(comune_name, query_upper) THEN 3
  ELSE 0

Display(c) ==
  c.comune \o <<" ", "(">> \o c.provincia \o <<")", " ", "-", " ">> \o c.regione

\* the search loop of autocomplete_comuni
RECURSIVE SearchLoop(_, _)
SearchLoop(comuni_data, query_upper) ==
  IF comuni_data = <<>> THEN <<>>
  ELSE
    LET c == Head(comuni_data)
        score == Score(Upper(c.comune), query_upper)
    IN  (IF score = 0 THEN <<>>
         ELSE <<[score |-> score, comune |-> c.comune, provincia |-> c.provincia,
                 regione |-> c.regione, display |-> Display(c)]>>)
        \o SearchLoop(Tail(comuni_data), query_upper)

\* a sort step that puts x before the elements of equal key
RECURSIVE InsertByScore_BeforeEqual(_, _)
InsertByScore_BeforeEqual(sorted, x) ==
  IF sorted = <<>> THEN <<x>>
  ELSE IF sorted[Len(sorted)].score < x.score THEN Append(sorted, x)
  ELSE Append(InsertByScore_BeforeEqual(SubSeq(sorted, 1, Len(sorted) - 1), x),
              sorted[Len(sorted)])

\* one step of the stable sort: x goes after every element whose key is not
\* greater than its own
RECURSIVE InsertByScore(_, _)
InsertByScore(sorted, x) ==
  IF sorted = <<>> THEN <<x>>
  ELSE IF sorted[Len(sorted)].score <= x.score THEN Append(sorted, x)
  ELSE Append(InsertByScore(SubSeq(sorted, 1, Len(sorted) - 1), x),
              sorted[Len(sorted)])

\* a sort that leaves the list in table order
SortByScore_TableOrder(results) == results

\* results.sort(key=lambda x: x['score']): list.sort is stable
RECURSIVE SortByScore(_)
SortByScore(results) ==
  IF results = <<>> THEN <<>>
  ELSE InsertByScore(SortByScore(SubSeq(results, 1, Len(results) - 1)),
                     results[Len(results)])

\* a slice that stops one entry late
SliceTo_OneLate(results, limit) ==
  SubSeq(results, 1, IF limit + 1 < Len(results) THEN limit + 1 ELSE Len(results))

\* results[:limit]: a negative limit counts from the end
SliceTo(results, limit) ==
  LET n == Len(results)
      stop == IF limit >= 0 THEN (IF limit < n THEN limit ELSE n)
              ELSE (IF n + limit > 0 THEN n + limit ELSE 0)
  IN  SubSeq(results, 1, stop)

\* del result['score']
DelScore(r) ==
  [comune |-> r.comune, provincia |-> r.provincia,
   regione |-> r.regione, display |-> r.display]

DelScores(results) ==
  IF results = <<>> THEN <<>> ELSE [i \in 1..Len(results) |-> DelScore(results[i])]

\* the ranked list before truncation
Ranked(comuni, query_upper) ==
  SortByScore(SearchLoop(ComuniData(comuni), query_upper))

\* a test that lets a query of one character through
TooShort_OneIsEnough(query) == query = <<>>

\* if not query or len(query) < 2
TooShort(query) == query = <<>> \/ Len(query) < 2

\* a handler that truncates the matches before it sorts them
autocomplete_comuni_SliceBeforeSort(global, d, args) ==
  LET query == Strip(IF IsNone(args.q) THEN <<>> ELSE Value(args.q))
      limit == IF IsNone(args.limit) THEN DefaultLimit ELSE Value(args.limit)
  IN  IF TooShort(query)
      THEN [success |-> FALSE, error |-> "Query must be at least 2 characters",
            results |-> <<>>]
      ELSE IF InitLookupRaises(global, d)
      THEN [success |-> FALSE, error |-> "Autocomplete error"]
      ELSE
        LET lookup == Value(init_lookup(global, d))
        IN  IF IsNone(lookup.comuni_cache)
            THEN [success |-> FALSE, error |-> "Data not loaded"]
            ELSE
              LET results == DelScores(SortByScore(SliceTo(
                     SearchLoop(ComuniData(Value(lookup.comuni_cache)),
                                Upper(query)), limit)))
              IN  [success |-> TRUE, query |-> query,
                   count |-> Len(results), results |-> results]

\* the /api/autocomplete handler: the JSON body it returns
autocomplete_comuni(global, d, args) ==
  LET query == Strip(IF IsNone(args.q) THEN <<>> ELSE Value(args.q))
      limit == IF IsNone(args.limit) THEN DefaultLimit ELSE Value(args.limit)
  IN  IF TooShort(query)
      THEN [success |-> FALSE, error |-> "Query must be at least 2 characters",
            results |-> <<>>]
      ELSE IF InitLookupRaises(global, d)
      THEN [success |-> FALSE, error |-> "Autocomplete error"]
      ELSE
        LET lookup == Value(init_lookup(global, d))
        IN  IF IsNone(lookup.comuni_cache)
            THEN [success |-> FALSE, error |-> "Data not loaded"]
            ELSE
              LET results == DelScores(SliceTo(
                     Ranked(Value(lookup.comuni_cache), Upper(query)), limit))
              IN  [success |-> TRUE, query |-> query,
                   count |-> Len(results), results |-> results]

----------------------------------------------------------------------------
(* Bounds and the data the files are drawn from *)

MaxComuni == 2     \* rows of comuni.csv
MaxCollegi == 2    \* rows of collegi_camera.csv
MaxMembers == 2    \* rows of each representatives file
MaxQueryLen == 3   \* characters of a query
MaxLimit == 2      \* the largest limit argument
MaxThreads == 2    \* request threads at work at the same time

\* every sequence over S of length at most n
SeqsUpTo(S, n) == UNION {[1..k -> S] : k \in 0..n}

Lazio == <<"L","a","z","i","o">>
Lombardia == <<"L","o","m","b","a","r","d","i","a">>
Centrale == <<"C","e","n","t","r","a","l","e">>
Insulare == <<"I","n","s","u","l","a","r","e">>
SomeText == <<"x">>
Corsica == <<"C","o","r","s","i","c","a">>

IndexText(i) == <<"n", <<"1","2","3","4","5","6","7","8","9">>[i]>>

\* row i of comuni.csv: the ISTAT code is the row number
ComuneRow(i, name, regione) ==
  [istat_comune |-> i, comune |-> name, provincia |-> <<"R","M">>, regione |-> regione]

ComuniTable(names, regione) ==
  [i \in 1..Len(names) |-> ComuneRow(i, names[i], regione)]

\* a comuni.csv whose rows lie in different provinces and, by turns, in two
\* regions
ComuniTableByRegion(names) ==
  [i \in 1..Len(names) |->
     [ComuneRow(i, names[i], IF i % 2 = 1 THEN Lazio ELSE Lombardia)
        EXCEPT !.provincia = IndexText(i)]]

\* a comuni.csv whose rows lie in different provinces
ComuniTableByProvince(names, regione) ==
  [i \in 1..Len(names) |->
     [ComuneRow(i, names[i], regione) EXCEPT !.provincia = IndexText(i)]]

CollegioRow(code, id) == [istat_comune |-> code, collegio_camera_id |-> id]

\* row i of a representatives file; key is the text the join reads
DeputatoRow(i, key) ==
  [nome |-> IndexText(i), cognome |-> SomeText, gruppo_partito |-> SomeText,
   collegio |-> key, email_istituzionale |-> SomeText, form_contatti_url |-> NaN]

SenatoreRow(i, key) ==
  [nome |-> IndexText(i), cognome |-> SomeText, gruppo_partito |-> SomeText,
   regione |-> key, email_istituzionale |-> SomeText, sito_ufficiale |-> NaN]

MepRow(i, key) ==
  [nome |-> IndexText(i), cognome |-> SomeText, gruppo_partito |-> SomeText,
   circoscrizione_eu |-> key, email_istituzionale |-> SomeText,
   form_contatti_url |-> NaN]

DeputatiTable(keys) == [i \in 1..Len(keys) |-> DeputatoRow(i, keys[i])]
SenatoriTable(keys) == [i \in 1..Len(keys) |-> SenatoreRow(i, keys[i])]
MepTable(keys) == [i \in 1..Len(keys) |-> MepRow(i, keys[i])]

\* municipality names: plain, with an inner space, padded, missing
Ab == <<"A","b">>
Abb == <<"A","b","b">>
A_b == <<"A"," ","b">>
Aab == <<"A","a","b">>
ResolveNames == {Ab, Abb, A_b, <<" ">> \o Ab, Ab \o <<" ">>, NaN}
Aba == <<"A", "b", "a">>
SuggestNames == {Ab, Abb, Aab, Aba, <<" ">> \o Ab, NaN}

QueryChars == {"a", "A", "b", " "}
Queries == SeqsUpTo(QueryChars, MaxQueryLen)

SuggestChars == {"a", "B", " "}
SuggestQueries == SeqsUpTo(SuggestChars, MaxQueryLen)

LazioP01 == <<"L","A","Z","I","O","-","P","0","1">>
LazioP01Mixed == <<"L","a","z","i","o","-","P","0","1">>
LombardiaP01 == <<"L","O","M","B","A","R","D","I","A","-","P","0","1">>
NoRegionP01 == <<"-","P","0","1">>
CollegioIds == {LazioP01, LazioP01Mixed, NoRegionP01, NaN}

Lazio1P01 == <<"L","A","Z","I","O"," ","1"," ","-"," ","P","0","1">>
Lazio2Mixed == <<"L","a","z","i","o"," ","2"," ","-"," ","P","0","1">>
Lombardia1P01 == <<"L","O","M","B","A","R","D","I","A"," ","1"," ","-"," ","P","0","1">>
Laz == <<"L","A","Z">>
CollegioLabels == {Lazio1P01, Lazio2Mixed, Lombardia1P01, Laz, NaN}

LazioUpper == <<"L","A","Z","I","O">>
LazioLower == <<"l","a","z","i","o">>
RegionFields == {Lazio, LazioUpper, Lazio \o <<" ">>, Lombardia, <<"L","a","z">>, NaN}
RegionQueries ==
  {Lazio, LazioLower, LazioUpper, Lazio \o <<" ">>, Lombardia, <<"L","a","z">>, <<>>}

CircFields ==
  {Centrale, Centrale \o <<" ">>, <<"c","e","n","t","r","a","l","e">>, Insulare, NaN}

\* every region of the grouping
GroupedRegions ==
  UNION {{eu_constituencies[k][2][i] : i \in 1..Len(eu_constituencies[k][2])}
         : k \in 1..Len(eu_constituencies)}

EuQueries ==
  GroupedRegions \cup {LazioLower, LazioUpper, Lazio \o <<" ">>, Centrale,
                       Corsica, <<>>}

\* the files on disk; an optional file that is absent is None
Disk(comuni, collegi, deputati, senatori, mep) ==
  [comuni |-> comuni, collegi_camera |-> collegi, collegi_senato |-> <<>>,
   contatti_camera |-> deputati, contatti_senato |-> senatori, contatti_eu |-> mep,
   absent |-> {}]

\* the required files
RequiredFiles == {"comuni", "collegi_camera", "collegi_senato"}

\* one municipality of Lazio with its district, and one member of each tier
FixedComuni ==
  <<ComuneRow(1, Ab, Lazio), ComuneRow(2, Abb, Lombardia),
    ComuneRow(3, Aab, Corsica)>>
FixedCollegi == <<CollegioRow(1, LazioP01)>>
FixedDeputati == Some(DeputatiTable(<<Lazio1P01>>))
FixedSenatori == Some(SenatoriTable(<<Lazio>>))
FixedMep == Some(MepTable(<<Centrale>>))

\* the arguments of a request: one of q, comune, cap, or none of them
LookupArgs(key, x) ==
  [q |-> IF key = "q" THEN Some(x) ELSE None,
   comune |-> IF key = "comune" THEN Some(x) ELSE None,
   cap |-> IF key = "cap" THEN Some(x) ELSE None]

NoLookupArgs == [q |-> None, comune |-> None, cap |-> None]

LookupArgsOver(Q) ==
  {LookupArgs(key, x) : key \in {"q", "comune", "cap"}, x \in Q} \cup {NoLookupArgs}

Limits == {Some(n) : n \in -1..MaxLimit} \cup {None}

SuggestArgsOver(Q) ==
  {[q |-> x, limit |-> l] : x \in {Some(y) : y \in Q} \cup {None}, l \in Limits}

LookupQueries == {Ab, <<"a","b","b">>, Aab, <<" ">>, <<"b","a">>}

Threads == 1..MaxThreads

\* what the concurrent requests ask for
ThreadQueries == {Ab, <<"b", "a">>}

\* str(n) of a municipality code
CodeText(n) == <<<<"0","1","2","3","4","5","6","7","8","9">>[n + 1]>>

\* the numeric queries: the codes of the rows, alone or padded
CodeQueries ==
  {CodeText(n) : n \in 1..(MaxComuni + 1)}
  \cup {<<" ">> \o CodeText(n) : n \in 1..MaxComuni}

\* the calls the concurrent requests to a loaded store make
ThreadCalls ==
  {[kind |-> "lookup", args |-> LookupArgs("q", q)] : q \in ThreadQueries}
  \cup {[kind |-> "suggest", args |-> [q |-> Some(<<"a","B">>), limit |-> l]]
          : l \in {None, Some(1)}}

\* the suggestions that are asked for more than once
RepeatArgs ==
  {[q |-> Some(q), limit |-> l] :
     q \in {<<"a","B">>, <<"a","B"," ">>, <<"B","B">>}, l \in {None, Some(1)}}

\* what the resolver and the ranker are both asked
AgreeQueries == {<<"a","B">>, <<" ","a","B">>, <<"A","b","b">>, <<"b","b">>}

AgreeArgs ==
  {[q |-> Some(q), limit |-> l] :
     q \in AgreeQueries, l \in {None} \cup {Some(n) : n \in 0..MaxLimit}}

OptionalTables(T) == {None} \cup {Some(t) : t \in T}

----------------------------------------------------------------------------
(* The state machine *)

\* requests are served one at a time: no thread is followed
NoThreads == [heap |-> <<>>, ref |-> 0, loads |-> 0, thread |-> <<>>]

\* a thread that has not yet taken its request
IdleThread == [pc |-> "idle", self |-> 0, lookup |-> 0, served |-> None]

\* the three lists of a lookup, none made yet
NoLists == [camera |-> None, senato |-> None, eu_parliament |-> None]

\* a thread of the loaded server that has not yet taken its request
IdleServing ==
  [pc |-> "idle", self |-> 0, lookup |-> 0, served |-> None,
   call |-> None, info |-> None, lists |-> NoLists, order |-> <<>>]

\* nothing is kept of the earlier answers
NoHistory == [kept |-> FALSE]

\* the answers are kept, none was given yet
EmptyHistory == [kept |-> TRUE, first |-> None, between |-> FALSE]

\* the last answer of the resolver is kept, none was given yet
NothingResolved == [kept |-> TRUE, resolved |-> None]

\* what is kept after a call has answered r: the last answer of the
\* resolver; or the first suggestion, and whether a lookup was answered
\* after it
Recorded(h, r) ==
  IF ~h.kept THEN h
  ELSE IF "resolved" \in DOMAIN h
       THEN IF r.op = "get_comune_info"
            THEN [h EXCEPT !.resolved = Some([search_term |-> r.search_term,
                                              result |-> r.result])]
            ELSE h
  ELSE IF r.op = "autocomplete" /\ IsNone(h.first)
       THEN [h EXCEPT !.first = Some([args |-> r.args, body |-> r.body])]
  ELSE IF r.op = "api_lookup" /\ ~IsNone(h.first)
       THEN [h EXCEPT !.between = TRUE]
  ELSE h

\* the process has started: the module-level lookup_system is None
InitWith(d) ==
  /\ disk = d
  /\ lookup_system = None
  /\ response = [op |-> "none"]
  /\ history = NoHistory
  /\ conc = NoThreads

InitResolve ==
  \E names \in SeqsUpTo(ResolveNames, MaxComuni) :
    InitWith(Disk(ComuniTable(names, Lazio), FixedCollegi, FixedDeputati,
                  FixedSenatori, FixedMep))

InitSuggest ==
  \E names \in SeqsUpTo(SuggestNames, MaxComuni) :
    InitWith(Disk(ComuniTableByProvince(names, Lazio), FixedCollegi, FixedDeputati,
                  FixedSenatori, FixedMep))

InitCamera ==
  \E collegi \in SeqsUpTo({CollegioRow(c, id) : c \in {1, 2}, id \in CollegioIds},
                          MaxCollegi),
     deputati \in OptionalTables({DeputatiTable(k)
                                  : k \in SeqsUpTo(CollegioLabels, MaxMembers)}) :
    InitWith(Disk(FixedComuni, collegi, deputati, FixedSenatori, FixedMep))

InitSenato ==
  \E senatori \in OptionalTables({SenatoriTable(k)
                                  : k \in SeqsUpTo(RegionFields, MaxMembers)}) :
    InitWith(Disk(FixedComuni, FixedCollegi, FixedDeputati, senatori, FixedMep))

InitEu ==
  \E mep \in OptionalTables({MepTable(k) : k \in SeqsUpTo(CircFields, MaxMembers)}) :
    InitWith(Disk(FixedComuni, FixedCollegi, FixedDeputati, FixedSenatori, mep))

InitLookupData ==
  \E collegi \in {<<>>, <<CollegioRow(1, LazioP01)>>,
                  <<CollegioRow(1, LazioP01), CollegioRow(2, LombardiaP01)>>},
     deputati \in OptionalTables({DeputatiTable(k)
                    : k \in SeqsUpTo({Lazio1P01}, MaxMembers)}),
     senatori \in OptionalTables({SenatoriTable(k)
                    : k \in SeqsUpTo({Lazio, Lombardia}, MaxMembers)}),
     mep \in OptionalTables({MepTable(k) : k \in SeqsUpTo({Centrale}, MaxMembers)}) :
    InitWith(Disk(FixedComuni, collegi, deputati, senatori, mep))

\* tables for the resolver and the ranker, the resolver's answer being kept
InitAgree ==
  \E names \in SeqsUpTo(SuggestNames, MaxComuni) :
    /\ disk = Disk(ComuniTableByRegion(names), FixedCollegi, FixedDeputati,
                   FixedSenatori, FixedMep)
    /\ lookup_system = None
    /\ response = [op |-> "none"]
    /\ history = NothingResolved
    /\ conc = NoThreads

\* the tables of the ranker, the answers being kept
InitRepeat ==
  \E names \in SeqsUpTo(SuggestNames, MaxComuni) :
    /\ disk = Disk(ComuniTable(names, Lazio), FixedCollegi, FixedDeputati,
                   FixedSenatori, FixedMep)
    /\ lookup_system = None
    /\ response = [op |-> "none"]
    /\ history = EmptyHistory
    /\ conc = NoThreads

\* the files of the fixed tables, some of the required ones not there
InitLoadFailure ==
  \E absent \in SUBSET RequiredFiles, names \in SeqsUpTo({Ab, Abb}, MaxComuni) :
    /\ disk = [Disk(ComuniTable(names, Lazio), FixedCollegi, FixedDeputati,
                    FixedSenatori, FixedMep) EXCEPT !.absent = absent]
    /\ lookup_system = None
    /\ response = [op |-> "none"]
    /\ history = NoHistory
  /\ conc = NoThreads

\* the server has started, no request has arrived, every file is there
InitConcurrent ==
  /\ disk = Disk(FixedComuni, FixedCollegi, FixedDeputati, FixedSenatori, FixedMep)
  /\ lookup_system = None
  /\ response = [op |-> "none"]
  /\ history = NoHistory
  /\ conc = [heap |-> <<>>, ref |-> 0, loads |-> 0,
             thread |-> [t \in Threads |-> IdleThread]]

\* the store has been loaded, before the first request, from files that
\* may lack the lower chamber's; no request has arrived
InitServing ==
  \E deputati \in {None, FixedDeputati} :
    /\ disk = Disk(FixedComuni, FixedCollegi, deputati, FixedSenatori, FixedMep)
    /\ lookup_system = Some(load_data(NewCivicLookup, disk))
    /\ response = [op |-> "none"]
    /\ history = NoHistory
    /\ conc = [heap |-> <<load_data(NewCivicLookup, disk)>>, ref |-> 1, loads |-> 1,
               thread |-> [t \in Threads |-> IdleServing]]

Loaded == ~IsNone(lookup_system)

\* the worker is between two requests
Idle == response.op = "none"

\* the caller has taken the returned value; the worker is idle again
Reply ==
  /\ ~Idle
  /\ response' = [op |-> "none"]
  /\ UNCHANGED <<disk, lookup_system, history, conc>>

\* a first request makes init_lookup create and load the instance
InitLookup ==
  /\ Idle
  /\ IsNone(lookup_system)
  /\ lookup_system' = init_lookup(lookup_system, disk)
  /\ response' = [op |-> "init_lookup", raised |-> LoadRaises(disk)]
  /\ UNCHANGED <<disk, history, conc>>

\* lookup.get_comune_info(search_term)
GetComuneInfo(search_term) ==
  /\ Idle
  /\ Loaded
  /\ response' = [op |-> "get_comune_info", search_term |-> search_term,
                  result |-> get_comune_info(Value(lookup_system), search_term)]
  /\ history' = Recorded(history, response')
  /\ UNCHANGED <<disk, lookup_system, conc>>

\* lookup.get_camera_representatives(istat_comune)
GetCameraRepresentatives(istat_comune) ==
  /\ Idle
  /\ Loaded
  /\ response' = [op |-> "get_camera_representatives", istat_comune |-> istat_comune,
                  result |-> get_camera_representatives(Value(lookup_system),
                                                        istat_comune)]
  /\ UNCHANGED <<disk, lookup_system, history, conc>>

\* lookup.get_senato_representatives(regione)
GetSenatoRepresentatives(regione) ==
  /\ Idle
  /\ Loaded
  /\ response' = [op |-> "get_senato_representatives", regione |-> regione,
                  result |-> get_senato_representatives(Value(lookup_system), regione)]
  /\ UNCHANGED <<disk, lookup_system, history, conc>>

\* lookup.get_eu_representatives(regione)
GetEuRepresentatives(regione) ==
  /\ Idle
  /\ Loaded
  /\ response' = [op |-> "get_eu_representatives", regione |-> regione,
                  result |-> get_eu_representatives(Value(lookup_system), regione)]
  /\ UNCHANGED <<disk, lookup_system, history, conc>>

\* lookup.lookup_representatives(search_term)
LookupRepresentatives(search_term) ==
  /\ Idle
  /\ Loaded
  /\ response' = [op |-> "lookup_representatives", search_term |-> search_term,
                  result |-> lookup_representatives(Value(lookup_system), search_term)]
  /\ UNCHANGED <<disk, lookup_system, history, conc>>

\* GET /api/lookup: init_lookup runs only when a query was given
ApiLookup(args) ==
  LET r == api_lookup(lookup_system, disk, args)
  IN  /\ Idle
      /\ response' = [op |-> "api_lookup", args |-> args,
                      status |-> r.status, body |-> r.body]
      /\ lookup_system' = IF r.status = 400 THEN lookup_system
                          ELSE init_lookup(lookup_system, disk)
      /\ history' = Recorded(history, response')
      /\ UNCHANGED <<disk, conc>>

\* GET /api/autocomplete: init_lookup runs only when the query is long enough
Autocomplete(args) ==
  LET body == autocomplete_comuni(lookup_system, disk, args)
  IN  /\ Idle
      /\ response' = [op |-> "autocomplete", args |-> args, body |-> body]
      /\ lookup_system' = IF TooShort(Strip(IF IsNone(args.q) THEN <<>> ELSE Value(args.q)))
                          THEN lookup_system
                          ELSE init_lookup(lookup_system, disk)
      /\ history' = Recorded(history, response')
      /\ UNCHANGED <<disk, conc>>

NextResolve ==
  \/ InitLookup
  \/ Reply
  \/ \E q \in Queries : GetComuneInfo(q)
  \/ \E args \in LookupArgsOver(LookupQueries) : ApiLookup(args)

NextCamera ==
  \/ InitLookup
  \/ Reply
  \/ \E code \in 0..MaxCollegi : GetCameraRepresentatives(code)

NextSenato ==
  \/ InitLookup
  \/ Reply
  \/ \E regione \in RegionQueries : GetSenatoRepresentatives(regione)

NextEu ==
  \/ InitLookup
  \/ Reply
  \/ \E regione \in EuQueries : GetEuRepresentatives(regione)

NextLookup ==
  \/ InitLookup
  \/ Reply
  \/ \E q \in LookupQueries : LookupRepresentatives(q)
  \/ \E args \in LookupArgsOver(LookupQueries) : ApiLookup(args)

NextSuggest ==
  \/ InitLookup
  \/ Reply
  \/ \E args \in SuggestArgsOver(SuggestQueries) : Autocomplete(args)

\* ---- requests served by concurrent threads (app.run, one thread a request)

\* the state with thread t moved on, the instances and the global as given
Step(t, th, heap, ref, loads) ==
  /\ conc' = [heap |-> heap, ref |-> ref, loads |-> loads,
              thread |-> [conc.thread EXCEPT ![t] = th]]
  /\ lookup_system' = IF ref = 0 THEN None ELSE Some(heap[ref])
  /\ UNCHANGED <<disk, response, history>>

At(t, pc) == t \in DOMAIN conc.thread /\ conc.thread[t].pc = pc

Goto(t, pc) == [conc.thread[t] EXCEPT !.pc = pc]

\* a request with a query arrives: its handler calls init_lookup
Request(t) ==
  /\ At(t, "idle")
  /\ Step(t, Goto(t, "test"), conc.heap, conc.ref, conc.loads)

\* if lookup_system is None:
TestGlobal(t) ==
  /\ At(t, "test")
  /\ Step(t, Goto(t, IF conc.ref = 0 THEN "create" ELSE "return"),
          conc.heap, conc.ref, conc.loads)

\* lookup_system = CivicLookup()
CreateInstance(t) ==
  /\ At(t, "create")
  /\ Step(t, Goto(t, "call"), Append(conc.heap, NewCivicLookup),
          Len(conc.heap) + 1, conc.loads)

\* lookup_system.load_data(): the method is entered on the instance the
\* global names now
CallLoadData(t) ==
  /\ At(t, "call")
  /\ Step(t, [conc.thread[t] EXCEPT !.pc = "load_comuni", !.self = conc.ref],
          conc.heap, conc.ref, conc.loads + 1)

\* self._comuni_cache = pd.read_csv(...)
LoadComuni(t) ==
  /\ At(t, "load_comuni")
  /\ Step(t, Goto(t, "load_rest"),
          [conc.heap EXCEPT ![conc.thread[t].self].comuni_cache = Some(disk.comuni)],
          conc.ref, conc.loads)

\* the district tables and the files of the representatives
LoadRest(t) ==
  /\ At(t, "load_rest")
  /\ Step(t, Goto(t, "load_eu"),
          [conc.heap EXCEPT ![conc.thread[t].self] =
             [@ EXCEPT !.collegi_camera_cache = Some(disk.collegi_camera),
                       !.collegi_senato_cache = Some(disk.collegi_senato),
                       !.deputati_cache = disk.contatti_camera,
                       !.senatori_cache = disk.contatti_senato,
                       !.mep_cache = disk.contatti_eu]],
          conc.ref, conc.loads)

\* self._eu_constituencies = {...}; load_data returns
LoadEu(t) ==
  /\ At(t, "load_eu")
  /\ Step(t, Goto(t, "return"),
          [conc.heap EXCEPT ![conc.thread[t].self].eu_constituencies
                              = Some(eu_constituencies)],
          conc.ref, conc.loads)

\* return lookup_system
ReturnGlobal(t) ==
  /\ At(t, "return")
  /\ Step(t, [conc.thread[t] EXCEPT !.pc = "serve", !.lookup = conc.ref],
          conc.heap, conc.ref, conc.loads)

\* self._eu_constituencies.items() of an instance whose load_data has read
\* the file of the EU members and not yet set the grouping: AttributeError
LookupRaises(self, search_term) ==
  /\ ~IsNone(get_comune_info(self, search_term))
  /\ ~IsNone(self.mep_cache)
  /\ IsNone(self.eu_constituencies)

\* result = lookup.lookup_representatives(query.strip()), and the except
\* clause of the handler
Serve(t) ==
  /\ At(t, "serve")
  /\ \E q \in ThreadQueries :
       LET lookup == conc.heap[conc.thread[t].lookup]
       IN  Step(t, [conc.thread[t] EXCEPT
                      !.pc = "done",
                      !.served =
                        IF LookupRaises(lookup, q)
                        THEN Some([status |-> 500,
                                   body |-> [success |-> FALSE,
                                             error |-> "Internal server error"]])
                        ELSE Some([status |-> 200,
                                   body |-> lookup_representatives(lookup, q)])],
                conc.heap, conc.ref, conc.loads)

NextConcurrent ==
  \E t \in Threads :
    \/ Request(t)
    \/ TestGlobal(t)
    \/ CreateInstance(t)
    \/ CallLoadData(t)
    \/ LoadComuni(t)
    \/ LoadRest(t)
    \/ LoadEu(t)
    \/ ReturnGlobal(t)
    \/ Serve(t)

\* ---- concurrent requests to a loaded store

\* a store that looks empty to a thread while another thread is at work
StoreSeen_EmptyWhileBusy(t) ==
  IF \E u \in DOMAIN conc.thread : u # t /\ conc.thread[u].pc = "tiers"
  THEN NewCivicLookup
  ELSE conc.heap[conc.thread[t].lookup]

\* the instance init_lookup returned to the thread, as it is now
StoreSeen(t) == conc.heap[conc.thread[t].lookup]

\* a mapper of the upper chamber that waits for the lower chamber's list
MapperResult_NeedsCamera(self, tier, info, lists) ==
  IF tier = "camera" THEN get_camera_representatives(self, info.istat_comune)
  ELSE IF tier = "senato"
       THEN (IF IsNone(lists.camera) THEN <<>>
             ELSE get_senato_representatives(self, info.regione))
  ELSE get_eu_representatives(self, info.regione)

\* one of the three calls of lookup_representatives: each takes the
\* municipality found and nothing of the lists made so far
MapperResult(self, tier, info, lists) ==
  IF tier = "camera" THEN get_camera_representatives(self, info.istat_comune)
  ELSE IF tier = "senato" THEN get_senato_representatives(self, info.regione)
  ELSE get_eu_representatives(self, info.regione)

\* a request arrives and its handler is entered
Arrive(t, call) ==
  /\ At(t, "idle")
  /\ Step(t, [conc.thread[t] EXCEPT !.pc = "test", !.call = Some(call)],
          conc.heap, conc.ref, conc.loads)

CallOf(t) == Value(conc.thread[t].call)

\* comune_info = self.get_comune_info(search_term), and the failure when
\* nothing is found
ResolveStep(t) ==
  /\ At(t, "serve")
  /\ CallOf(t).kind = "lookup"
  /\ LET search_term == Strip(Value(FirstTruthy(CallOf(t).args)))
         comune_info == get_comune_info(StoreSeen(t), search_term)
     IN  Step(t, IF IsNone(comune_info)
                 THEN [conc.thread[t] EXCEPT
                         !.pc = "done",
                         !.served = Some([status |-> 200,
                                          body |-> NotFoundFailure(search_term)])]
                 ELSE [conc.thread[t] EXCEPT !.pc = "tiers", !.info = comune_info],
             conc.heap, conc.ref, conc.loads)

\* one of the three mappers is called; the three are taken in any order
RunMapper(t, tier) ==
  /\ At(t, "tiers")
  /\ IsNone(conc.thread[t].lists[tier])
  /\ Step(t, [conc.thread[t] EXCEPT
                !.lists[tier] = Some(MapperResult(StoreSeen(t), tier,
                                                  Value(conc.thread[t].info),
                                                  conc.thread[t].lists)),
                !.order = Append(@, tier)],
          conc.heap, conc.ref, conc.loads)

\* result = {...}; return result
Assemble(t) ==
  /\ At(t, "tiers")
  /\ \A tier \in DOMAIN NoLists : ~IsNone(conc.thread[t].lists[tier])
  /\ LET deputati == Value(conc.thread[t].lists.camera)
         senatori == Value(conc.thread[t].lists.senato)
         mep == Value(conc.thread[t].lists.eu_parliament)
     IN  Step(t, [conc.thread[t] EXCEPT
                    !.pc = "done",
                    !.served = Some([status |-> 200,
                       body |-> [success |-> TRUE,
                                 location |-> Value(conc.thread[t].info),
                                 representatives |->
                                   [camera |-> deputati, senato |-> senatori,
                                    eu_parliament |-> mep],
                                 summary |-> Summary(deputati, senatori, mep)]])],
             conc.heap, conc.ref, conc.loads)

\* the body of autocomplete_comuni once init_lookup has returned
Rank(t) ==
  /\ At(t, "serve")
  /\ CallOf(t).kind = "suggest"
  /\ Step(t, [conc.thread[t] EXCEPT
                !.pc = "done",
                !.served = Some([status |-> 200,
                                 body |-> autocomplete_comuni(Some(StoreSeen(t)), disk,
                                                              CallOf(t).args)])],
          conc.heap, conc.ref, conc.loads)

NextServing ==
  \E t \in Threads :
    \/ \E call \in ThreadCalls : Arrive(t, call)
    \/ TestGlobal(t)
    \/ ReturnGlobal(t)
    \/ ResolveStep(t)
    \/ \E tier \in DOMAIN NoLists : RunMapper(t, tier)
    \/ Assemble(t)
    \/ Rank(t)

\* queries made of a municipality code
NextCodes ==
  \/ InitLookup
  \/ Reply
  \/ \E code \in CodeQueries : GetComuneInfo(code)
  \/ \E code \in CodeQueries : ApiLookup(LookupArgs("cap", code))

\* every operation that serves a query, one call after the other
NextQueries ==
  \/ InitLookup
  \/ Reply
  \/ \E q \in LookupQueries : GetComuneInfo(q)
  \/ \E code \in 0..MaxCollegi : GetCameraRepresentatives(code)
  \/ \E regione \in {Lazio, LazioLower} : GetSenatoRepresentatives(regione)
  \/ \E regione \in {Lazio, Corsica} : GetEuRepresentatives(regione)
  \/ \E q \in LookupQueries : LookupRepresentatives(q)
  \/ \E args \in LookupArgsOver({Ab}) : ApiLookup(args)
  \/ \E args \in RepeatArgs : Autocomplete(args)

\* requests to a server some of whose required files may not be there
NextLoadFailure ==
  \/ InitLookup
  \/ Reply
  \/ \E args \in LookupArgsOver({Ab, <<"b", "a">>}) : ApiLookup(args)
  \/ \E args \in RepeatArgs : Autocomplete(args)

\* the same few suggestions asked for again and again, lookups in between
NextRepeat ==
  \/ InitLookup
  \/ Reply
  \/ \E args \in RepeatArgs : Autocomplete(args)
  \/ \E args \in LookupArgsOver({Ab}) : ApiLookup(args)

\* the resolver and the ranker asked of the same store
NextAgree ==
  \/ InitLookup
  \/ Reply
  \/ \E q \in AgreeQueries : GetComuneInfo(q)
  \/ \E args \in AgreeArgs : Autocomplete(args)

Next ==
  \/ NextAgree
  \/ NextResolve
  \/ NextCamera
  \/ NextSenato
  \/ NextEu
  \/ NextLookup
  \/ NextSuggest
  \/ NextRepeat
  \/ NextLoadFailure
  \/ NextConcurrent
  \/ NextQueries
  \/ NextServing
  \/ NextCodes

SpecResolve == InitResolve /\ [][NextResolve]_vars
SpecCamera == InitCamera /\ [][NextCamera]_vars
SpecSenato == InitSenato /\ [][NextSenato]_vars
SpecEu == InitEu /\ [][NextEu]_vars
SpecLookup == InitLookupData /\ [][NextLookup]_vars
SpecSuggest == InitSuggest /\ [][NextSuggest]_vars
SpecRepeat == InitRepeat /\ [][NextRepeat]_vars
SpecLoadFailure == InitLoadFailure /\ [][NextLoadFailure]_vars
SpecConcurrent == InitConcurrent /\ [][NextConcurrent]_vars
SpecQueries == InitLookupData /\ [][NextQueries]_vars
SpecServing == InitServing /\ [][NextServing]_vars
SpecCodes == InitResolve /\ [][NextCodes]_vars
SpecAgree == InitAgree /\ [][NextAgree]_vars

Init == InitLookupData
Spec == Init /\ [][Next]_vars

----------------------------------------------------------------------------
(* Municipality Resolver: C1, C2, C3 *)

Comuni == disk.comuni

\* the rows whose name is present
Named(i) == Comuni[i].comune # NaN

\* the row of the table that a returned municipality stands for
ReturnedRow(info) ==
  CHOOSE r \in {Comuni[i] : i \in 1..Len(Comuni)} : r.istat_comune = info.istat_comune

Resolved == response.op = "get_comune_info"

\* the query names a municipality of the table, letter for letter
QueryIsAName ==
  \E i \in 1..Len(Comuni) : Named(i) /\ Comuni[i].comune = response.search_term

\* C1: for every municipality m of the table, get_comune_info(m.name) returns
\* a municipality of the table whose name equals m.name, and when a name
\* equals the query ignoring case the returned row is such an exact match,
\* never a row found by the substring fallback.
C1_ResolveOwnName ==
  Resolved =>
    /\ QueryIsAName =>
         /\ ~IsNone(response.result)
         /\ ReturnedRow(Value(response.result)).comune = response.search_term
    /\ (\E i \in 1..Len(Comuni) :
          Named(i) /\ Upper(Comuni[i].comune) = Upper(Strip(response.search_term))) =>
         /\ ~IsNone(response.result)
         /\ Upper(ReturnedRow(Value(response.result)).comune)
              = Upper(Strip(response.search_term))

\* the query is a substring of some name ignoring case, and equals none
SubstringOnly(q) ==
  /\ \E i \in 1..Len(Comuni) : Named(i) /\ Contains(Upper(Comuni[i].comune), Upper(q))
  /\ \A i \in 1..Len(Comuni) : Named(i) => Upper(Comuni[i].comune) # Upper(q)

\* C2 as stated: for every query q that is a substring of a name ignoring
\* case and equal to none, get_comune_info(q) is not None and the returned
\* municipality's name, upper-cased, contains the upper-cased q.  (Stated
\* here for the queries that are not blank; C3 is about the blank ones.)
C2_SubstringAsStated ==
  (Resolved /\ SubstringOnly(response.search_term)
     /\ Strip(response.search_term) # <<>>) =>
    /\ ~IsNone(response.result)
    /\ Contains(Upper(ReturnedRow(Value(response.result)).comune),
                Upper(response.search_term))

\* C2 amended: for every such q, get_comune_info(q) is not None and the
\* returned municipality's name, upper-cased, contains the upper-cased q
\* trimmed of its surrounding whitespace (both the name stored in the table
\* and the name in the returned record do).
C2_SubstringTrimmed ==
  (Resolved /\ SubstringOnly(response.search_term)) =>
    /\ ~IsNone(response.result)
    /\ Contains(Upper(ReturnedRow(Value(response.result)).comune),
                Upper(Strip(response.search_term)))
    /\ Contains(Upper(Value(response.result).comune),
                Upper(Strip(response.search_term)))

\* a substring-only query found a row that is not the first of the table
C2_Witness ==
  /\ Resolved
  /\ SubstringOnly(response.search_term)
  /\ Strip(response.search_term) # <<>>
  /\ ~IsNone(response.result)
  /\ Value(response.result).istat_comune > 1

\* the query /api/lookup hands to lookup_representatives, when it has one
ApiQuery == FirstTruthy(response.args)

\* C3: a query that is empty after trimming resolves to None whatever the
\* table holds, and /api/lookup of such a query reports a failure.
C3_EmptyQueryNotFound ==
  /\ (Resolved /\ Strip(response.search_term) = <<>>) => IsNone(response.result)
  /\ (response.op = "api_lookup" /\ ~IsNone(ApiQuery)
        /\ Strip(Value(ApiQuery)) = <<>>) => response.body.success = FALSE

----------------------------------------------------------------------------
(* Lookup Orchestrator: C4 *)

\* the dict a lookup returned, from the method or from /api/lookup
LookupBody ==
  IF response.op = "lookup_representatives" THEN Some(response.result)
  ELSE IF response.op = "api_lookup" /\ response.status = 200 THEN Some(response.body)
  ELSE None

SuccessfulLookup == ~IsNone(LookupBody) /\ Value(LookupBody).success

\* C4: in every successful lookup each per-tier count is the length of that
\* tier's list and the total is the sum of the three lengths.
C4_CountsConsistent ==
  SuccessfulLookup =>
    LET reps == Value(LookupBody).representatives
        summary == Value(LookupBody).summary
    IN  /\ summary.deputati_count = Len(reps.camera)
        /\ summary.senatori_count = Len(reps.senato)
        /\ summary.mep_count = Len(reps.eu_parliament)
        /\ summary.total_representatives
             = Len(reps.camera) + Len(reps.senato) + Len(reps.eu_parliament)

\* a successful lookup whose three lists have the lengths 1, 2 and 1
C4_Witness ==
  /\ SuccessfulLookup
  /\ Len(Value(LookupBody).representatives.camera) = 1
  /\ Len(Value(LookupBody).representatives.senato) = 2
  /\ Len(Value(LookupBody).representatives.eu_parliament) = 1

----------------------------------------------------------------------------
(* Tier Mappers: C5, C6, C7, C8 *)

\* the rows of a representatives file; no file, no members
MembersOf(file) == IF IsNone(file) THEN <<>> ELSE Value(file)

\* the dicts made of the members that satisfy Test, in file order
Selected(members, Test(_), Dict(_)) ==
  LET sel == SelectSeq(members, Test)
  IN  IF sel = <<>> THEN <<>> ELSE [i \in 1..Len(sel) |-> Dict(sel[i])]

CameraCalled == response.op = "get_camera_representatives"

\* the district rows that carry a municipality code
DistrictRows(code) ==
  {i \in 1..Len(disk.collegi_camera) : disk.collegi_camera[i].istat_comune = code}

\* the district identifier found for a code: that of its first row
DistrictOf(code) ==
  disk.collegi_camera[CHOOSE i \in DistrictRows(code) :
                        \A j \in DistrictRows(code) : i <= j].collegio_camera_id

\* the region token of a district identifier: its upper-cased text before
\* the first '-'
RegionToken(D) ==
  LET u == Upper(PyStr(D))
      dashes == {i \in 1..Len(u) : u[i] = "-"}
  IN  IF dashes = {} THEN u
      ELSE SubSeq(u, 1, (CHOOSE i \in dashes : \A j \in dashes : i <= j) - 1)

\* the member's district label, upper-cased, starts with the token
LabelStartsWith(member, T) ==
  LET label == Upper(PyStr(member.collegio))
  IN  Len(T) <= Len(label) /\ \A i \in 1..Len(T) : label[i] = T[i]

\* C5: get_camera_representatives(code) is empty when no district row has
\* the code; otherwise, with D the district identifier found for the code and
\* T the upper-cased text of D before its first '-', it is exactly the
\* lower-chamber members whose district label, upper-cased, starts with T,
\* in file order.
C5_CameraByRegionToken ==
  CameraCalled =>
    IF DistrictRows(response.istat_comune) = {} THEN response.result = <<>>
    ELSE LET T == RegionToken(DistrictOf(response.istat_comune))
         IN  response.result
               = Selected(MembersOf(disk.contatti_camera),
                          LAMBDA m : LabelStartsWith(m, T), DeputatoDict)

\* district "Lazio-P01": the member labelled "LAZIO 1 - P01" is returned and
\* a member of another region is not
C5_Witness ==
  /\ CameraCalled
  /\ DistrictRows(response.istat_comune) # {}
  /\ DistrictOf(response.istat_comune) = LazioP01Mixed
  /\ \E i \in 1..Len(response.result) : response.result[i].collegio = Lazio1P01
  /\ \E i \in 1..Len(MembersOf(disk.contatti_camera)) :
       MembersOf(disk.contatti_camera)[i].collegio = Lombardia1P01

EuCalled == response.op = "get_eu_representatives"

\* the constituencies whose region set holds a region
ConstituenciesOf(regione) ==
  {k \in 1..Len(eu_constituencies) :
     \E i \in 1..Len(eu_constituencies[k][2]) : eu_constituencies[k][2][i] = regione}

\* C6: for every region that belongs to a constituency c of the grouping,
\* get_eu_representatives(region) is exactly the EU members whose
\* constituency field (read as the engine reads a cell: a missing cell is
\* empty, surrounding whitespace dropped) equals c, letter case included.
C6_EuByConstituency ==
  EuCalled =>
    \A k \in ConstituenciesOf(response.regione) :
      response.result
        = Selected(MembersOf(disk.contatti_eu),
                   LAMBDA m : clean_for_json(m.circoscrizione_eu)
                                = eu_constituencies[k][1],
                   MepDict)

\* "Lazio" was asked for: a member of "Centrale" is returned, and the file
\* also holds a member who is not returned
C6_Witness ==
  /\ EuCalled
  /\ response.regione = Lazio
  /\ Len(response.result) >= 1
  /\ Len(response.result) < Len(MembersOf(disk.contatti_eu))

\* C7: for a region that is in none of the five region sets,
\* get_eu_representatives returns the empty list, whatever the file holds.
C7_EuUnknownRegionEmpty ==
  (EuCalled /\ ConstituenciesOf(response.regione) = {}) => response.result = <<>>

\* "lazio" (not a region of the grouping as written) was asked for while
\* the file holds a member of "Centrale"
C7_Witness ==
  /\ EuCalled
  /\ response.regione = LazioLower
  /\ \E i \in 1..Len(MembersOf(disk.contatti_eu)) :
       MembersOf(disk.contatti_eu)[i].circoscrizione_eu = Centrale
  /\ response.result = <<>>

SenatoCalled == response.op = "get_senato_representatives"

\* C8 as stated: get_senato_representatives(regione) is exactly the
\* upper-chamber members whose region field equals regione ignoring letter
\* case, with no prefix or substring match.
C8_SenatoAsStated ==
  SenatoCalled =>
    response.result
      = Selected(MembersOf(disk.contatti_senato),
                 LAMBDA m : m.regione # NaN /\ Upper(m.regione) = Upper(response.regione),
                 SenatoreDict)

\* C8 amended: get_senato_representatives(regione) is exactly the members
\* whose region field, trimmed of surrounding whitespace (a missing field
\* reading as empty), equals regione ignoring letter case; a region name
\* that differs from regione only in letter case yields the same list, and
\* no match yields the empty list.
C8_SenatoTrimmedField ==
  SenatoCalled =>
    /\ response.result
         = Selected(MembersOf(disk.contatti_senato),
                    LAMBDA m : Upper(Strip(IF m.regione = NaN THEN <<>> ELSE m.regione))
                                 = Upper(response.regione),
                    SenatoreDict)
    /\ response.result
         = get_senato_representatives(Value(lookup_system), Upper(response.regione))

\* "lazio" was asked for: a member filed under "LAZIO" is returned and a
\* member of "Lombardia" is not
C8_Witness ==
  /\ SenatoCalled
  /\ response.regione = LazioLower
  /\ \E i \in 1..Len(response.result) : response.result[i].regione = LazioUpper
  /\ \E i \in 1..Len(MembersOf(disk.contatti_senato)) :
       MembersOf(disk.contatti_senato)[i].regione = Lombardia

----------------------------------------------------------------------------
(* Autocomplete Ranker: C9, C10 *)

SuggestCalled == response.op = "autocomplete"

\* the q parameter as the client sent it
RawQuery == IF IsNone(response.args.q) THEN <<>> ELSE Value(response.args.q)

\* the limit in force: the one sent, or the default
LimitInForce ==
  IF IsNone(response.args.limit) THEN DefaultLimit ELSE Value(response.args.limit)

\* the table rows whose name holds a text, ignoring letter case
Occurs(p, s) ==
  \E k \in 0..(Len(s) - Len(p)) : \A i \in 1..Len(p) : s[k + i] = p[i]

RowsHolding(text) ==
  {i \in 1..Len(disk.comuni) :
     /\ disk.comuni[i].comune # NaN
     /\ Occurs(Upper(text), Upper(disk.comuni[i].comune))}

\* C9 as stated: for every query of at least 2 characters and every integer
\* limit, the suggestions are at most limit entries.
C9_AtMostLimitAsStated ==
  (SuggestCalled /\ Len(RawQuery) >= 2) =>
    Len(response.body.results) <= LimitInForce

\* C9 amended: for every query of at least 2 characters and every integer
\* limit that is not negative, the suggestions are at most limit entries.
C9_AtMostLimit ==
  (SuggestCalled /\ Len(RawQuery) >= 2 /\ LimitInForce >= 0) =>
    Len(response.body.results) <= LimitInForce

\* limit 1 was asked for, two municipalities hold the query, one is returned
C9_Witness ==
  /\ SuggestCalled
  /\ response.args.limit = Some(1)
  /\ Cardinality(RowsHolding(Strip(RawQuery))) = 2
  /\ Len(response.body.results) = 1

\* the entry is the municipality of a table row: its name without the
\* surrounding whitespace, its province and its region
EntryOfRow(entry, row) ==
  /\ row.comune # NaN
  /\ entry.comune = Strip(row.comune)
  /\ entry.provincia = clean_for_json(row.provincia)
  /\ entry.regione = clean_for_json(row.regione)

\* C10 as stated: every suggestion is a municipality of the table whose
\* upper-cased name holds the upper-cased q.
C10_EntriesHoldQueryAsStated ==
  SuggestCalled =>
    \A j \in 1..Len(response.body.results) :
      \E i \in RowsHolding(RawQuery) :
        EntryOfRow(response.body.results[j], disk.comuni[i])

\* C10 amended: every suggestion is a municipality of the table whose
\* upper-cased name equals, starts with or contains the upper-cased q
\* trimmed of its surrounding whitespace; no municipality whose name does
\* not hold the trimmed q is returned.
C10_EntriesHoldTrimmedQuery ==
  SuggestCalled =>
    \A j \in 1..Len(response.body.results) :
      /\ Occurs(Upper(Strip(RawQuery)), Upper(response.body.results[j].comune))
      /\ \E i \in RowsHolding(Strip(RawQuery)) :
           EntryOfRow(response.body.results[j], disk.comuni[i])

\* a query sent with surrounding whitespace: of the two municipalities of
\* the table one holds it and is returned, the other is left out
C10_Witness ==
  /\ SuggestCalled
  /\ Strip(RawQuery) # RawQuery
  /\ Len(disk.comuni) = 2
  /\ \A i \in 1..2 : disk.comuni[i].comune # NaN
  /\ Cardinality(RowsHolding(Strip(RawQuery))) = 1
  /\ Len(response.body.results) = 1

----------------------------------------------------------------------------
(* Autocomplete Ranker: C11, C12, C13 *)

\* how a returned name relates to the query: 1 equals, 2 starts with,
\* 3 contains only (letter case ignored)
MatchClass(name, query) ==
  LET n == Upper(name)
      q == Upper(query)
  IN  IF n = q THEN 1
      ELSE IF Len(q) <= Len(n) /\ \A i \in 1..Len(q) : n[i] = q[i] THEN 2
      ELSE 3

\* C11: in the list of suggestions every entry that equals the query
\* precedes every entry that only starts with it, which precedes every
\* entry that only contains it.
C11_ExactThenPrefixThenContains ==
  SuggestCalled =>
    \A j, k \in 1..Len(response.body.results) :
      MatchClass(response.body.results[j].comune, Strip(RawQuery))
        < MatchClass(response.body.results[k].comune, Strip(RawQuery))
      => j < k

\* the table holds "Abb" before "Ab"; for "aB" the exact match "Ab" is
\* returned first and "Abb" second
C11_Witness ==
  /\ SuggestCalled
  /\ Len(disk.comuni) = 2
  /\ disk.comuni[1].comune = Abb
  /\ disk.comuni[2].comune = Ab
  /\ Len(response.body.results) = 2
  /\ response.body.results[1].comune = Ab
  /\ response.body.results[2].comune = Abb

\* C12: a suggestion asked for again with the same q and the same limit,
\* against the same loaded store, is answered with the same entries in the
\* same order, whatever was answered in between.
C12_SameAnswerAgain ==
  (SuggestCalled /\ history.kept /\ ~IsNone(history.first)
     /\ Value(history.first).args = response.args)
  => response.body = Value(history.first).body

\* the suggestion was answered before, a lookup was answered after that, and
\* now it is answered again, with two entries
C12_Witness ==
  /\ SuggestCalled
  /\ history.kept
  /\ ~IsNone(history.first)
  /\ history.between
  /\ Value(history.first).args = response.args
  /\ Len(response.body.results) = 2

\* the query without its leading and trailing blanks
Trimmed(q) ==
  LET solid == {i \in 1..Len(q) : q[i] # " "}
  IN  IF solid = {} THEN <<>>
      ELSE SubSeq(q, CHOOSE i \in solid : \A j \in solid : i <= j,
                     CHOOSE i \in solid : \A j \in solid : j <= i)

\* the QueryTooShort outcome: a failure with no results
QueryTooShort ==
  /\ ~response.body.success
  /\ response.body.error = "Query must be at least 2 characters"
  /\ response.body.results = <<>>

\* C13: a suggestion is refused as too short exactly when the query, once
\* trimmed, has fewer than 2 characters, and then nothing is ranked and the
\* store is not even asked for; a query of trimmed length 2 or more is
\* ranked and answered with success.
C13_TooShortExactly ==
  [][ SuggestCalled' =>
        /\ QueryTooShort' <=> (Len(Trimmed(RawQuery')) < 2)
        /\ QueryTooShort' => lookup_system' = lookup_system
        /\ ~QueryTooShort' =>
             /\ response'.body.success
             /\ response'.body.query = Trimmed(RawQuery')
             /\ response'.body.count = Len(response'.body.results)
             /\ ~IsNone(lookup_system') ]_vars

\* " a " has three characters, one once trimmed: it is refused and the
\* store is still not loaded
C13_Witness ==
  /\ SuggestCalled
  /\ RawQuery = <<" ", "a", " ">>
  /\ QueryTooShort
  /\ IsNone(lookup_system)

----------------------------------------------------------------------------
(* Lookup Orchestrator: C14, C15 *)

LookupCalled == response.op = "lookup_representatives"

\* the query a lookup was made with: the argument of the method, or the
\* parameter of /api/lookup as the handler hands it on
LookupQuery ==
  IF LookupCalled THEN response.search_term ELSE Strip(Value(ApiQuery))

\* the text ends with the tail
EndsWith(text, tail) ==
  /\ Len(tail) <= Len(text)
  /\ \A i \in 1..Len(tail) : text[Len(text) - Len(tail) + i] = tail[i]

\* C14: a lookup fails exactly when the resolver finds no municipality for
\* its query; the failure names the query it was made with and holds an
\* empty list of representatives, no location, no tier and no count.
C14_FailsExactlyOnNotFound ==
  ~IsNone(LookupBody) =>
    LET r == Value(LookupBody)
    IN  /\ ~r.success <=> IsNone(get_comune_info(Value(lookup_system), LookupQuery))
        /\ ~r.success <=> RowsHolding(Trimmed(LookupQuery)) = {}
        /\ ~r.success =>
             /\ DOMAIN r = {"success", "error", "representatives"}
             /\ r.representatives = <<>>
             /\ EndsWith(r.error, LookupQuery)
             /\ Len(r.error) = Len(NotFoundPrefix) + Len(LookupQuery)

\* "ba" is in no name of the table: the lookup fails and says so
C14_Witness ==
  /\ LookupCalled
  /\ response.search_term = <<"b", "a">>
  /\ ~response.result.success
  /\ Len(disk.comuni) >= 1

\* what the lower-chamber mapper owes a municipality code
CameraFor(code) ==
  IF IsNone(disk.contatti_camera) \/ DistrictRows(code) = {} THEN <<>>
  ELSE Selected(MembersOf(disk.contatti_camera),
                LAMBDA m : LabelStartsWith(m, RegionToken(DistrictOf(code))),
                DeputatoDict)

\* what the upper-chamber mapper owes a region name
SenatoFor(regione) ==
  Selected(MembersOf(disk.contatti_senato),
           LAMBDA m : Upper(Trimmed(IF m.regione = NaN THEN <<>> ELSE m.regione))
                        = Upper(regione),
           SenatoreDict)

\* what the EU mapper owes a region name
EuFor(regione) ==
  IF ConstituenciesOf(regione) = {} THEN <<>>
  ELSE LET c == eu_constituencies[CHOOSE k \in ConstituenciesOf(regione) : TRUE][1]
       IN  Selected(MembersOf(disk.contatti_eu),
                    LAMBDA m : m.circoscrizione_eu # NaN
                               /\ Trimmed(m.circoscrizione_eu) = c,
                    MepDict)

\* C15: in every successful lookup each tier's list is what that tier's
\* mapper returns for the resolved municipality, its code for the lower
\* chamber and its region for the upper chamber and the EU, each from its
\* own file alone; an empty tier leaves the other two lists as they are.
C15_TiersIndependent ==
  SuccessfulLookup =>
    LET r == Value(LookupBody)
    IN  /\ r.representatives.camera = CameraFor(r.location.istat_comune)
        /\ r.representatives.senato = SenatoFor(r.location.regione)
        /\ r.representatives.eu_parliament = EuFor(r.location.regione)
        /\ r.representatives.camera
             = get_camera_representatives(Value(lookup_system), r.location.istat_comune)
        /\ r.representatives.senato
             = get_senato_representatives(Value(lookup_system), r.location.regione)
        /\ r.representatives.eu_parliament
             = get_eu_representatives(Value(lookup_system), r.location.regione)

\* the file of the lower chamber is absent: that tier is empty, the two
\* others are reported in full
C15_Witness ==
  /\ SuccessfulLookup
  /\ IsNone(disk.contatti_camera)
  /\ Value(LookupBody).representatives.camera = <<>>
  /\ Len(Value(LookupBody).representatives.senato) = 2
  /\ Len(Value(LookupBody).representatives.eu_parliament) = 2

----------------------------------------------------------------------------
(* Tier Mappers: C16 *)

\* the district identifier has no region token: it is missing, or nothing
\* stands before its first '-'
NoRegionToken(D) == D = NaN \/ D = <<>> \/ D[1] = "-"

\* C16: when the district identifier found for a municipality has no region
\* token, get_camera_representatives returns the empty list.
C16_NoTokenNoMembers ==
  (CameraCalled /\ DistrictRows(response.istat_comune) # {}
     /\ NoRegionToken(DistrictOf(response.istat_comune)))
  => response.result = <<>>

----------------------------------------------------------------------------
(* Reference Data Store: C17 *)

\* a request was answered from the store: a lookup with its success or its
\* NotFoundFailure, or a ranked suggestion
AnsweredFromStore ==
  \/ response.op = "api_lookup" /\ response.status = 200
  \/ response.op = "autocomplete" /\ response.body.success

\* C17: when the load fails because a required file is not there, no later
\* lookup or suggest request is answered from the store, which is not
\* loaded, or loaded in part.
C17_RefusesAfterLoadFailure ==
  LoadRaises(disk) => ~AnsweredFromStore

----------------------------------------------------------------------------
(* Reference Data Store under concurrent requests: C18, C19 *)

\* the threads that have obtained the instance from init_lookup
Obtained == {t \in Threads : conc.thread[t].pc \in {"serve", "done"}}

\* C18: however the concurrent requests interleave, load_data is called at
\* most once, at most one instance is created, and every request uses it.
C18_LoadedOnce ==
  /\ conc.loads <= 1
  /\ Len(conc.heap) <= 1
  /\ \A t \in Obtained : conc.thread[t].lookup = 1

\* C19: however the concurrent requests interleave, a request that has
\* obtained the instance from init_lookup holds it with every table and the
\* constituency grouping loaded.
C19_ObtainedLoaded ==
  \A t \in Obtained :
    conc.heap[conc.thread[t].lookup] = load_data(NewCivicLookup, disk)

----------------------------------------------------------------------------
(* Reference Data Store: C20 *)

\* the store as load_data leaves it
FreshlyLoaded == Some(load_data(NewCivicLookup, disk))

\* C20: no operation that serves a query changes the store: once loaded,
\* every table and the constituency grouping stay what they were right
\* after loading, whatever calls are made.
C20_StoreUnchanged ==
  [][ /\ Loaded => lookup_system' = lookup_system
      /\ Loaded' => lookup_system' = FreshlyLoaded
      /\ disk' = disk ]_vars

\* a lookup has been answered with representatives of every tier, and the
\* store is what it was right after loading
C20_Witness ==
  /\ SuccessfulLookup
  /\ Value(LookupBody).summary.total_representatives >= 3
  /\ lookup_system = FreshlyLoaded
  /\ Value(lookup_system).mep_cache # None

----------------------------------------------------------------------------
(* Concurrent calls on a loaded store: C21, C22 *)

\* what a call returns when it is the only one
Alone(call) ==
  IF call.kind = "lookup"
  THEN api_lookup(Some(load_data(NewCivicLookup, disk)), disk, call.args)
  ELSE [status |-> 200,
        body |-> autocomplete_comuni(Some(load_data(NewCivicLookup, disk)), disk,
                                     call.args)]

Finished == {t \in DOMAIN conc.thread : conc.thread[t].pc = "done"}

\* C21: once the store is loaded, every lookup or suggest call that has run
\* together with others, in whatever interleaving, has returned what it
\* returns when it runs alone.
C21_SameAsAlone ==
  \A t \in Finished : Value(conc.thread[t].served) = Alone(CallOf(t))

\* a lookup has finished with success while another request was in the
\* middle of its three mapper calls
C21_Witness ==
  \E t \in Finished, u \in DOMAIN conc.thread :
    /\ u # t
    /\ CallOf(t).kind = "lookup"
    /\ Value(conc.thread[t].served).body.success
    /\ conc.thread[u].pc = "tiers"
    /\ Len(conc.thread[u].order) = 1

\* the lookups whose three mapper calls have all been made
Mapped == {t \in DOMAIN conc.thread : Len(conc.thread[t].order) = 3}

\* C22: in whatever order the three mappers of a lookup are called, the
\* three lists are those of the order lower chamber, upper chamber, EU, and
\* the lookup returns the same lists and the same counts.
C22_AnyOrderSameLists ==
  \A t \in Mapped :
    LET th == conc.thread[t]
        store == load_data(NewCivicLookup, disk)
        info == Value(th.info)
        deputati == get_camera_representatives(store, info.istat_comune)
        senatori == get_senato_representatives(store, info.regione)
        mep == get_eu_representatives(store, info.regione)
    IN  /\ th.lists = [camera |-> Some(deputati), senato |-> Some(senatori),
                       eu_parliament |-> Some(mep)]
        /\ th.pc = "done" =>
             /\ Value(th.served).body.representatives
                  = [camera |-> deputati, senato |-> senatori, eu_parliament |-> mep]
             /\ Value(th.served).body.summary
                  = [total_representatives |-> Len(deputati) + Len(senatori) + Len(mep),
                     deputati_count |-> Len(deputati),
                     senatori_count |-> Len(senatori),
                     mep_count |-> Len(mep)]

\* a lookup whose mappers were called in the order EU, upper chamber, lower
\* chamber has returned one member of each tier
C22_Witness ==
  \E t \in Mapped :
    /\ conc.thread[t].order = <<"eu_parliament", "senato", "camera">>
    /\ conc.thread[t].pc = "done"
    /\ Value(conc.thread[t].served).body.summary.total_representatives = 3

----------------------------------------------------------------------------
(* Constituency grouping: C23 *)

\* the grouping the loaded store holds
Grouping == Value(Value(lookup_system).eu_constituencies)

RegionSet(k) == {Grouping[k][2][i] : i \in 1..Len(Grouping[k][2])}

\* the grouping scanned from its last entry to its first
ReverseScan == [k \in 1..Len(Grouping) |-> Grouping[Len(Grouping) + 1 - k]]

\* C23: the grouping of a loaded store has exactly five constituencies,
\* their region sets are pairwise disjoint and hold twenty distinct region
\* names in all, so each listed region is in exactly one constituency, and
\* the constituency get_eu_representatives finds, and so its result, is the
\* same when the grouping is scanned in the opposite order.
C23_GroupingPartitions ==
  Loaded =>
    /\ Len(Grouping) = 5
    /\ \A j, k \in 1..Len(Grouping) : j # k => RegionSet(j) \cap RegionSet(k) = {}
    /\ Cardinality(UNION {RegionSet(k) : k \in 1..Len(Grouping)}) = 20
    /\ \A r \in UNION {RegionSet(k) : k \in 1..Len(Grouping)} :
         /\ Cardinality({k \in 1..Len(Grouping) : r \in RegionSet(k)}) = 1
         /\ FindCircoscrizione(Grouping, r) = FindCircoscrizione(ReverseScan, r)
    /\ EuCalled =>
         response.result
           = get_eu_representatives(
               [Value(lookup_system) EXCEPT !.eu_constituencies = Some(ReverseScan)],
               response.regione)

\* "Sardegna" was asked for and a member of "Insulare" is returned
C23_Witness ==
  /\ EuCalled
  /\ response.regione = <<"S","a","r","d","e","g","n","a">>
  /\ Len(response.result) >= 1
  /\ response.result[1].circoscrizione_eu = Insulare

----------------------------------------------------------------------------
(* Municipality Resolver: C24, C25, C26 *)

\* the two queries are equal once trimmed and upper-cased
SameNormalForm(q1, q2) == Upper(Trimmed(q1)) = Upper(Trimmed(q2))

\* queries of the same normal form as q: its normal form, q trimmed, q in
\* upper case, and each of them with whitespace put before or after
Variants(q) ==
  LET base == {q, Upper(Trimmed(q)), Trimmed(q), Upper(q)}
  IN  base \cup {<<" ">> \o v : v \in base} \cup {v \o <<" ">> : v \in base}

\* C24: get_comune_info gives one outcome, the same municipality or None,
\* to all the queries that are equal once trimmed and upper-cased: the
\* outcome for a query is the outcome for its trimmed upper-cased form and
\* for every other way of writing that form.
C24_CaseAndBlanksIgnored ==
  Resolved =>
    \A q2 \in Variants(response.search_term) :
      /\ SameNormalForm(response.search_term, q2)
      /\ get_comune_info(Value(lookup_system), q2) = response.result

\* " ab" was asked for and the municipality "Ab" is returned, as for "Ab"
C24_Witness ==
  /\ Resolved
  /\ response.search_term = <<" ", "a", "b">>
  /\ ~IsNone(response.result)
  /\ Value(response.result).comune = Ab

\* the named rows whose ISTAT code, written out, is the trimmed query
RowsWithCode(q) ==
  {i \in 1..Len(disk.comuni) :
     /\ disk.comuni[i].comune # NaN
     /\ CodeText(disk.comuni[i].istat_comune) = Trimmed(q)}

\* C25: for every municipality m of the table, get_comune_info called with
\* m's ISTAT code returns m's record, and so does /api/lookup?cap=code.
C25_FoundByCode ==
  /\ Resolved =>
       \A i \in RowsWithCode(response.search_term) :
         /\ ~IsNone(response.result)
         /\ Value(response.result).istat_comune = disk.comuni[i].istat_comune
  /\ (response.op = "api_lookup" /\ response.status = 200) =>
       \A i \in RowsWithCode(Value(ApiQuery)) :
         /\ response.body.success
         /\ response.body.location.istat_comune = disk.comuni[i].istat_comune

\* the named rows whose upper-cased name equals the upper-cased trimmed query
RowsEqual(q) ==
  {i \in 1..Len(disk.comuni) :
     /\ disk.comuni[i].comune # NaN
     /\ Upper(disk.comuni[i].comune) = Upper(Trimmed(q))}

\* the lowest row of a set of rows
Lowest(rows) == CHOOSE i \in rows : \A j \in rows : i <= j

\* C26: get_comune_info returns the lowest row of the table among those
\* whose upper-cased name equals the upper-cased trimmed query when there is
\* one, even after a row that only contains it; otherwise the lowest row
\* among those whose upper-cased name contains it; and None when there is
\* neither.
C26_FirstExactElseFirstContaining ==
  Resolved =>
    LET q == response.search_term
        candidates == IF RowsEqual(q) # {} THEN RowsEqual(q)
                      ELSE RowsHolding(Trimmed(q))
    IN  IF candidates = {} THEN IsNone(response.result)
        ELSE /\ ~IsNone(response.result)
             /\ Value(response.result).istat_comune
                  = disk.comuni[Lowest(candidates)].istat_comune
             /\ Value(response.result).comune
                  = Trimmed(disk.comuni[Lowest(candidates)].comune)

\* the table holds "Abb" before "Ab": "ab" resolves to "Ab", the second row
C26_Witness ==
  /\ Resolved
  /\ Len(disk.comuni) = 2
  /\ disk.comuni[1].comune = Abb
  /\ disk.comuni[2].comune = Ab
  /\ response.search_term = <<"a", "b">>
  /\ ~IsNone(response.result)
  /\ Value(response.result).istat_comune = 2

----------------------------------------------------------------------------
(* Autocomplete Ranker: C27, C28 *)

\* the table row a suggestion was made from (the rows of the suggest tables
\* lie in different provinces)
RowOf(entry) ==
  CHOOSE i \in 1..Len(disk.comuni) : EntryOfRow(entry, disk.comuni[i])

SuggestAnswered == SuggestCalled /\ response.body.success

\* C27: any two suggestions of the same score (both equal the query, both
\* only start with it, or both only contain it) stand in the order of their
\* rows in the municipality table.
C27_EqualScoresInTableOrder ==
  SuggestAnswered =>
    \A j, k \in 1..Len(response.body.results) :
      (/\ j < k
       /\ MatchClass(response.body.results[j].comune, Strip(RawQuery))
            = MatchClass(response.body.results[k].comune, Strip(RawQuery)))
      => RowOf(response.body.results[j]) < RowOf(response.body.results[k])

\* the table holds "Abb" before "Aba"; both only start with "aB" and are
\* returned in table order, not in alphabetical order
C27_Witness ==
  /\ SuggestAnswered
  /\ Len(disk.comuni) = 2
  /\ disk.comuni[1].comune = Abb
  /\ disk.comuni[2].comune = Aba
  /\ Strip(RawQuery) = <<"a", "B">>
  /\ Len(response.body.results) = 2
  /\ response.body.results[1].comune = Abb
  /\ response.body.results[2].comune = Aba

\* the rows of the table the suggestions were made from
RowsReturned ==
  {RowOf(response.body.results[j]) : j \in 1..Len(response.body.results)}

\* the score of a row for the trimmed query
ClassOfRow(i) == MatchClass(Strip(disk.comuni[i].comune), Strip(RawQuery))

\* row i ranks before row k: a better score, or the same score and an
\* earlier place in the table
RanksBefore(i, k) ==
  \/ ClassOfRow(i) < ClassOfRow(k)
  \/ ClassOfRow(i) = ClassOfRow(k) /\ i < k

Min(a, b) == IF a < b THEN a ELSE b

\* C28: for an accepted query and a limit that is not negative, the
\* suggestions are the first min(limit, n) of the n matching municipalities
\* in ranked order: the entries come from distinct matching rows in ranked
\* order, every omitted match ranks after every returned one (none has a
\* strictly better score), and with limit >= n every municipality whose
\* name contains the query, trimmed or as sent, is returned.
C28_TruncatedAfterRanking ==
  (SuggestAnswered /\ LimitInForce >= 0) =>
    LET matching == RowsHolding(Strip(RawQuery))
        n == Cardinality(matching)
        results == response.body.results
    IN  /\ Len(results) = Min(LimitInForce, n)
        /\ \A j \in 1..Len(results) :
             \E i \in matching : EntryOfRow(results[j], disk.comuni[i])
        /\ Cardinality(RowsReturned) = Len(results)
        /\ \A j, k \in 1..Len(results) :
             j < k => RanksBefore(RowOf(results[j]), RowOf(results[k]))
        /\ \A o \in matching \ RowsReturned : \A i \in RowsReturned :
             /\ RanksBefore(i, o)
             /\ ~(ClassOfRow(o) < ClassOfRow(i))
        /\ LimitInForce >= n =>
             /\ RowsReturned = matching
             /\ RowsHolding(RawQuery) \subseteq RowsReturned

\* the table holds "Abb" before "Ab" and limit 1 is asked for "aB": the one
\* suggestion is "Ab", the second row, and the first row is left out
C28_Witness ==
  /\ SuggestAnswered
  /\ response.args.limit = Some(1)
  /\ Len(disk.comuni) = 2
  /\ disk.comuni[1].comune = Abb
  /\ disk.comuni[2].comune = Ab
  /\ Cardinality(RowsHolding(Strip(RawQuery))) = 2
  /\ RowsReturned = {2}

----------------------------------------------------------------------------
(* Lookup Orchestrator: C29 *)

\* a lookup that got as far as the engine: the method, or /api/lookup with a
\* query
LookupAnswered ==
  LookupCalled \/ (response.op = "api_lookup" /\ response.status # 400)

\* the caches of the store that were left unset
Unset(cache) == Loaded /\ IsNone(Value(lookup_system)[cache])

\* C29: a tier whose member file was absent at load time, or whose district
\* table is unset, gets the empty list from its mapper for every
\* municipality, and the lookup of a query that resolves still succeeds,
\* with that tier's list empty and its count 0.
C29_AbsentTableEmptyTier ==
  /\ Loaded =>
       /\ \A f \in {"contatti_camera", "contatti_senato", "contatti_eu"} :
            IsNone(disk[f]) <=>
              Unset(CASE f = "contatti_camera" -> "deputati_cache"
                      [] f = "contatti_senato" -> "senatori_cache"
                      [] f = "contatti_eu" -> "mep_cache")
       /\ \A i \in 1..Len(disk.comuni) :
            LET row == disk.comuni[i]
            IN  /\ Unset("deputati_cache") =>
                     get_camera_representatives(Value(lookup_system),
                                                row.istat_comune) = <<>>
                /\ get_camera_representatives(
                     [Value(lookup_system) EXCEPT !.collegi_camera_cache = None],
                     row.istat_comune) = <<>>
                /\ Unset("senatori_cache") =>
                     get_senato_representatives(Value(lookup_system),
                                                row.regione) = <<>>
                /\ Unset("mep_cache") =>
                     get_eu_representatives(Value(lookup_system),
                                            row.regione) = <<>>
  /\ (LookupAnswered /\ RowsHolding(Trimmed(LookupQuery)) # {}) =>
       /\ SuccessfulLookup
       /\ IsNone(disk.contatti_camera) =>
            /\ Value(LookupBody).representatives.camera = <<>>
            /\ Value(LookupBody).summary.deputati_count = 0
       /\ IsNone(disk.contatti_senato) =>
            /\ Value(LookupBody).representatives.senato = <<>>
            /\ Value(LookupBody).summary.senatori_count = 0
       /\ IsNone(disk.contatti_eu) =>
            /\ Value(LookupBody).representatives.eu_parliament = <<>>
            /\ Value(LookupBody).summary.mep_count = 0

\* the files of the senators and of the EU members are absent: the lookup
\* succeeds with the deputies alone
C29_Witness ==
  /\ SuccessfulLookup
  /\ IsNone(disk.contatti_senato)
  /\ IsNone(disk.contatti_eu)
  /\ Len(Value(LookupBody).representatives.camera) >= 1
  /\ Value(LookupBody).summary.senatori_count = 0
  /\ Value(LookupBody).summary.mep_count = 0
  /\ Value(LookupBody).summary.total_representatives
       = Len(Value(LookupBody).representatives.camera)

----------------------------------------------------------------------------
(* Resolver and ranker: C30 *)

\* no name of the table is stored with surrounding whitespace
NamesUnpadded ==
  \A i \in 1..Len(disk.comuni) :
    disk.comuni[i].comune # NaN =>
      Trimmed(disk.comuni[i].comune) = disk.comuni[i].comune

\* the resolver was asked the query the ranker has now answered
ResolvedSameQuery ==
  /\ SuggestCalled
  /\ ~IsNone(history.resolved)
  /\ Value(history.resolved).search_term = RawQuery

\* C30: when the names are stored without surrounding whitespace, the
\* trimmed query has at least 2 characters and equals a name of the table
\* ignoring letter case, and the limit is at least 1, the first suggestion
\* has the name, the province and the region of the municipality the
\* resolver returns for the same query.
C30_ResolverAndRankerAgree ==
  (/\ ResolvedSameQuery
   /\ NamesUnpadded
   /\ Len(Trimmed(RawQuery)) >= 2
   /\ RowsEqual(RawQuery) # {}
   /\ LimitInForce >= 1) =>
    /\ response.body.success
    /\ response.body.results # <<>>
    /\ ~IsNone(Value(history.resolved).result)
    /\ LET first == response.body.results[1]
           info == Value(Value(history.resolved).result)
       IN  /\ first.comune = info.comune
           /\ first.provincia = info.provincia
           /\ first.regione = info.regione

\* the table holds "Abb" before "Ab"; asked "aB", the resolver returned the
\* second row and the ranker, with limit 1, names the same municipality
C30_Witness ==
  /\ ResolvedSameQuery
  /\ Len(disk.comuni) = 2
  /\ disk.comuni[1].comune = Abb
  /\ disk.comuni[2].comune = Ab
  /\ RawQuery = <<"a", "B">>
  /\ response.args.limit = Some(1)
  /\ Value(Value(history.resolved).result).istat_comune = 2
  /\ Len(response.body.results) = 1
  /\ response.body.results[1].provincia = IndexText(2)
  /\ response.body.results[1].regione = Lombardia

====
